---- MODULE Spec2Model ----
(***************************************************************************)
(* Model of the wellness log store of digital_weelness.py: the CSV backing *)
(* file, the FileLock that guards save_entry, the st.cache_data memo of    *)
(* load_data (one memo per server process) and the sessions that call      *)
(* load_data, save_entry and the "Delete All Data" handler.                *)
(*                                                                         *)
(* A session is one browser session (one script thread) of one Streamlit   *)
(* server process.  The CSV file and its .lock file are shared by every    *)
(* process started in the same directory; the memo of load_data lives in   *)
(* the memory of one process and is shared by that process's sessions.     *)
(***************************************************************************)
EXTENDS Integers, Sequences, FiniteSets, TLC

\* ---------------------------------------------------------------- bounds
\* the calendar dates a check-in can be made for, and the browser sessions
NumDates == 1
NumSessions == 2

Users    == {"alice", "bob"}
Dates    == 1..NumDates
NaT      == 0
Procs    == {1, 2}
\* the sessions are spread over the processes in turn
Sessions == 1..NumSessions
ProcOf(s) == ((s - 1) % 2) + 1

Free   == 0
NoMemo == <<"miss">>

\* the outcome of save_entry: its return value and the message it shows
OK       == [ret |-> TRUE,  msg |-> "none"]
CONFLICT == [ret |-> FALSE, msg |-> "warning"]
IO_ERROR == [ret |-> FALSE, msg |-> "error"]
NoResult == [ret |-> FALSE, msg |-> "pending"]
NoEntry  == [username |-> "", date |-> NaT, journal |-> 0]

VARIABLES
    fileExists,   \* os.path.exists(DATA_FILE)
    file,         \* the data rows of DATA_FILE, in file order
    lock,         \* holder of DATA_FILE.lock, or Free
    memo,         \* memo[p]: the value st.cache_data holds for load_data()
    inferFormat,  \* pd.to_datetime infers one format for the whole column
    pc,           \* pc[s]: where session s is
    entry,        \* entry[s]: the argument of the running save_entry
    df,           \* df[s]: the frame save_entry got from load_data()
    result,       \* result[s]: outcome of the last save_entry
    saved,        \* history: saved[s] is the entry of the last save_entry of s,
                  \* once it returned True and until the next wipe of the file
    overlap,      \* history: pairs of sessions whose save_entry calls overlapped
    wipe,         \* history: wipe.rows[s] is what the file held when the wipe
                  \* session s is running began (recorded when wipe.record)
    ui,           \* st.session_state and the page of the session under study
    probe         \* the last call of a pure function: arguments and value

\* the variables of the store, and those of the single-session and
\* single-call specifications, which the store leaves alone
aux  == <<ui, probe>>
vars == <<fileExists, file, lock, memo, inferFormat, pc, entry, df, result,
          saved, overlap, wipe, ui, probe>>

store == <<fileExists, file, lock, memo, inferFormat, pc, entry, df, result,
           saved, overlap, wipe>>

NoUi    == [logged_in |-> FALSE]
NoProbe == [op |-> "none"]
NoWipe  == [s \in Sessions |-> <<>>]

AppendPcs  == {"acquire", "load", "write", "clear"}
InLockPcs  == {"load", "write", "clear"}

\* ------------------------------------------------------- pandas helpers
\* the indices of seq that satisfy keep, as an ascending sequence
RECURSIVE SelectIdx(_, _, _)
SelectIdx(seq, keep, i) ==
    IF i > Len(seq) THEN <<>>
    ELSE IF i \in keep THEN <<seq[i]>> \o SelectIdx(seq, keep, i + 1)
         ELSE SelectIdx(seq, keep, i + 1)

\* pd.to_datetime(column, errors='coerce') of one cell, given the format the
\* column was inferred to have ("any": every cell is parsed on its own)
ParseCell(cell, fmt) ==
    IF cell.fmt = "empty" THEN NaT
    ELSE IF fmt = "any" \/ cell.fmt = fmt THEN cell.day
    ELSE NaT

\* the format pd.to_datetime guesses from the first non-null cell
GuessFormat(rows) ==
    LET nonNull == {i \in 1..Len(rows) : rows[i].date.fmt # "empty"}
    IN  IF nonNull = {} THEN "any"
        ELSE LET first == CHOOSE i \in nonNull : \A j \in nonNull : i <= j
             IN  rows[first].date.fmt

\* lines 42-45: the date column of the frame
ToDatetime(rows, infer) ==
    LET fmt == IF infer THEN GuessFormat(rows) ELSE "any"
    IN  [i \in 1..Len(rows) |->
            [username |-> rows[i].username,
             date     |-> ParseCell(rows[i].date, fmt),
             journal  |-> rows[i].journal]]

\* drop_duplicates with keep="first"
DropDuplicatesKeepFirst(frame) ==
    LET first == {i \in 1..Len(frame) :
                    \A j \in 1..(i-1) :
                        ~(frame[j].username = frame[i].username
                          /\ frame[j].date = frame[i].date)}
    IN  SelectIdx(frame, first, 1)

\* line 57: df.drop_duplicates(subset=["username","date"], keep="last")
DropDuplicates(frame) ==
    LET last == {i \in 1..Len(frame) :
                    \A j \in (i+1)..Len(frame) :
                        ~(frame[j].username = frame[i].username
                          /\ frame[j].date = frame[i].date)}
    IN  SelectIdx(frame, last, 1)

\* lines 34-57: what load_data computes from the rows of the file
ReadStore(rows, infer) == DropDuplicates(ToDatetime(rows, infer))

\* the existence check forgotten
ExistsNever(frame, e) == FALSE

\* lines 64-67: is there a row of the same user and calendar date
Exists(frame, e) ==
    \E i \in 1..Len(frame) :
        frame[i].username = e.username /\ frame[i].date = e.date
                                       /\ frame[i].date # NaT

\* to_csv of one cell of the concatenated date column: the column holds the
\* Timestamps of the frame and the ISO string of the new row, so it is an
\* object column and each Timestamp is written by str()
WriteOldCell(d) ==
    IF d = NaT THEN [fmt |-> "empty", day |-> NaT]
    ELSE [fmt |-> "datetime", day |-> d]

\* lines 72-79: the rows to_csv writes for frame + entry
Concat(frame, e) ==
    [i \in 1..Len(frame) |->
        [username |-> frame[i].username,
         date     |-> WriteOldCell(frame[i].date),
         journal  |-> frame[i].journal]]
    \o <<[username |-> e.username,
          date     |-> [fmt |-> "date", day |-> e.date],
          journal  |-> e.journal]>>

\* ------------------------------------------------------------ load_data
\* the value a call of load_data() in process p returns now
LoadData(p) ==
    IF memo[p] # NoMemo THEN memo[p][2] ELSE ReadStore(file, inferFormat)

\* the memo of process p after that call
MemoAfterLoad(p) ==
    [memo EXCEPT ![p] = <<"hit", LoadData(p)>>]

\* ----------------------------------------------------------------- Init
\* A fresh installation: no data file, no memo, nobody inside save_entry.
\* inferFormat is a property of the installed pandas, fixed for a run: from
\* pandas 2 on, pd.to_datetime guesses one format from the first non-null
\* cell and coerces the cells of another format to NaT; before, every cell
\* is parsed on its own.
InitStore ==
    /\ fileExists = FALSE
    /\ file = <<>>
    /\ lock = Free
    /\ memo = [p \in Procs |-> NoMemo]
    /\ inferFormat \in BOOLEAN
    /\ pc = [s \in Sessions |-> "idle"]
    /\ entry = [s \in Sessions |-> NoEntry]
    /\ df = [s \in Sessions |-> <<>>]
    /\ result = [s \in Sessions |-> NoResult]
    /\ saved = [s \in Sessions |-> NoEntry]
    /\ overlap = {}
    /\ ui = NoUi
    /\ probe = NoProbe

Init == InitStore /\ wipe = [record |-> FALSE, rows |-> NoWipe]

\* the same start, with the rows each wipe deletes being recorded
WipeInit == InitStore /\ wipe = [record |-> TRUE, rows |-> NoWipe]

\* the recorded rows once (u, d) is submitted anew: a row of that key that
\* appears from now on may be the new entry
Resubmitted(u, d) ==
    IF wipe.record
    THEN [wipe EXCEPT !.rows =
            [t \in Sessions |->
                SelectIdx(wipe.rows[t],
                          {i \in 1..Len(wipe.rows[t]) :
                             ~(wipe.rows[t][i].username = u
                               /\ wipe.rows[t][i].date.day = d)}, 1)]]
    ELSE wipe

\* -------------------------------------------------------------- actions
\* line 160 / 217: a lock-free data = load_data() of a script run
Load(s) ==
    /\ pc[s] = "idle"
    /\ memo' = MemoAfterLoad(ProcOf(s))
    /\ fileExists' = TRUE
    /\ UNCHANGED <<file, lock, inferFormat, pc, entry, df, result,
                   saved, overlap>>
    /\ UNCHANGED <<wipe, aux>>

\* lines 198-212: the form is submitted and save_entry(entry) is called; the
\* journal text stands for the other fields of the row and tells the rows
\* submitted through different processes apart
StartAppend(s, u, d) ==
    /\ pc[s] = "idle"
    /\ pc' = [pc EXCEPT ![s] = "acquire"]
    /\ entry' = [entry EXCEPT ![s] =
                    [username |-> u, date |-> d, journal |-> ProcOf(s)]]
    /\ result' = [result EXCEPT ![s] = NoResult]
    /\ saved' = [saved EXCEPT ![s] = NoEntry]
    /\ overlap' = {pr \in overlap : s \notin pr}
                  \cup {{s, t} : t \in {x \in Sessions \ {s} : pc[x] \in AppendPcs}}
    /\ wipe' = Resubmitted(u, d)
    /\ UNCHANGED <<fileExists, file, lock, memo, inferFormat, df>>
    /\ UNCHANGED aux

\* a lock that only excludes the sessions of the caller's own process
CanAcquireOwnProcess(s) == lock = Free \/ ProcOf(lock) # ProcOf(s)

\* line 62: FileLock.acquire succeeds only while nobody holds the lock file
CanAcquire(s) == lock = Free

Acquire(s) ==
    /\ pc[s] = "acquire"
    /\ CanAcquire(s)
    /\ lock' = s
    /\ pc' = [pc EXCEPT ![s] = "load"]
    /\ UNCHANGED <<fileExists, file, memo, inferFormat, entry, df, result,
                   saved, overlap>>
    /\ UNCHANGED <<wipe, aux>>

\* a FileLock without timeout: the waiting caller never gives up
TimeoutNever(s) ==
    /\ FALSE
    /\ UNCHANGED vars

\* lines 60-62, 85-88: the lock stays held for LOCK_TIMEOUT seconds, acquire
\* raises Timeout, the handler shows the error and returns False
Timeout(s) ==
    /\ pc[s] = "acquire"
    /\ lock # Free
    /\ pc' = [pc EXCEPT ![s] = "idle"]
    /\ result' = [result EXCEPT ![s] = IO_ERROR]
    /\ entry' = [entry EXCEPT ![s] = NoEntry]
    /\ UNCHANGED <<fileExists, file, lock, memo, inferFormat, df,
                   saved, overlap>>
    /\ UNCHANGED <<wipe, aux>>

\* lines 63-70: load_data() inside the lock, then the existence check; on a
\* hit the warning is shown, the with-block releases the lock and False is
\* returned
LoadCheck(s) ==
    /\ pc[s] = "load"
    /\ memo' = MemoAfterLoad(ProcOf(s))
    /\ fileExists' = TRUE
    /\ IF Exists(LoadData(ProcOf(s)), entry[s])
       THEN /\ pc' = [pc EXCEPT ![s] = "idle"]
            /\ result' = [result EXCEPT ![s] = CONFLICT]
            /\ entry' = [entry EXCEPT ![s] = NoEntry]
            /\ lock' = Free
            /\ UNCHANGED df
       ELSE /\ pc' = [pc EXCEPT ![s] = "write"]
            /\ df' = [df EXCEPT ![s] = LoadData(ProcOf(s))]
            /\ UNCHANGED <<result, entry, lock>>
    /\ UNCHANGED <<file, inferFormat, saved, overlap>>
    /\ UNCHANGED <<wipe, aux>>

\* lines 72-79: df_new.to_csv(DATA_FILE) rewrites the whole file
Persist(s) ==
    /\ pc[s] = "write"
    /\ file' = Concat(df[s], entry[s])
    /\ fileExists' = TRUE
    /\ pc' = [pc EXCEPT ![s] = "clear"]
    /\ df' = [df EXCEPT ![s] = <<>>]
    /\ UNCHANGED <<lock, memo, inferFormat, entry, result, saved, overlap>>
    /\ UNCHANGED <<wipe, aux>>

\* the error path leaves the with-block without releasing the lock
PersistFailKeepsLock(s) ==
    /\ pc[s] = "write"
    /\ pc' = [pc EXCEPT ![s] = "idle"]
    /\ result' = [result EXCEPT ![s] = IO_ERROR]
    /\ entry' = [entry EXCEPT ![s] = NoEntry]
    /\ df' = [df EXCEPT ![s] = <<>>]
    /\ UNCHANGED <<fileExists, file, lock, memo, inferFormat, saved, overlap>>
    /\ UNCHANGED <<wipe, aux>>

\* the failed write leaves a truncated file behind
PersistFailTruncates(s) ==
    /\ pc[s] = "write"
    /\ pc' = [pc EXCEPT ![s] = "idle"]
    /\ result' = [result EXCEPT ![s] = IO_ERROR]
    /\ lock' = Free
    /\ file' = <<>>
    /\ entry' = [entry EXCEPT ![s] = NoEntry]
    /\ df' = [df EXCEPT ![s] = <<>>]
    /\ UNCHANGED <<fileExists, memo, inferFormat, saved, overlap>>
    /\ UNCHANGED <<wipe, aux>>

\* lines 79, 85-88: to_csv raises (the file cannot be opened for writing);
\* the with-block releases the lock, the handler shows the error and
\* returns False
PersistFail(s) ==
    /\ pc[s] = "write"
    /\ pc' = [pc EXCEPT ![s] = "idle"]
    /\ result' = [result EXCEPT ![s] = IO_ERROR]
    /\ lock' = Free
    /\ entry' = [entry EXCEPT ![s] = NoEntry]
    /\ df' = [df EXCEPT ![s] = <<>>]
    /\ UNCHANGED <<fileExists, file, memo, inferFormat, saved, overlap>>
    /\ UNCHANGED <<wipe, aux>>

\* lines 80-84: st.cache_data.clear() empties the memo of this process, the
\* with-block releases the lock and True is returned
Invalidate(s) ==
    /\ pc[s] = "clear"
    /\ memo' = [memo EXCEPT ![ProcOf(s)] = NoMemo]
    /\ lock' = Free
    /\ pc' = [pc EXCEPT ![s] = "idle"]
    /\ result' = [result EXCEPT ![s] = OK]
    /\ saved' = [saved EXCEPT ![s] = entry[s]]
    /\ entry' = [entry EXCEPT ![s] = NoEntry]
    /\ UNCHANGED <<fileExists, file, inferFormat, df, overlap>>
    /\ UNCHANGED <<wipe, aux>>

\* lines 312-317: "Delete All Data" rewrites the file to the empty schema,
\* without taking the lock
\* the rows of the file whose key no save_entry in progress is submitting
Preexisting ==
    SelectIdx(file,
              {i \in 1..Len(file) :
                 \A t \in Sessions :
                    pc[t] \in AppendPcs =>
                        ~(entry[t].username = file[i].username
                          /\ entry[t].date = file[i].date.day)}, 1)

ClearAllWrite(s) ==
    /\ pc[s] = "idle"
    /\ file' = <<>>
    /\ fileExists' = TRUE
    /\ pc' = [pc EXCEPT ![s] = "wiped"]
    /\ saved' = [t \in Sessions |-> NoEntry]
    /\ wipe' = IF wipe.record
               THEN [wipe EXCEPT !.rows[s] = Preexisting]
               ELSE wipe
    /\ UNCHANGED <<lock, memo, inferFormat, entry, df, result, overlap>>
    /\ UNCHANGED aux

\* lines 318-323: st.cache_data.clear() of the wiping process
ClearAllInvalidate(s) ==
    /\ pc[s] = "wiped"
    /\ memo' = [memo EXCEPT ![ProcOf(s)] = NoMemo]
    /\ pc' = [pc EXCEPT ![s] = "idle"]
    /\ wipe' = [wipe EXCEPT !.rows[s] = <<>>]
    /\ UNCHANGED <<fileExists, file, lock, inferFormat, entry, df, result,
                   saved, overlap>>
    /\ UNCHANGED aux

Next ==
    \/ \E s \in Sessions : Load(s)
    \/ \E s \in Sessions, u \in Users, d \in Dates : StartAppend(s, u, d)
    \/ \E s \in Sessions : Acquire(s)
    \/ \E s \in Sessions : Timeout(s)
    \/ \E s \in Sessions : LoadCheck(s)
    \/ \E s \in Sessions : Persist(s)
    \/ \E s \in Sessions : PersistFail(s)
    \/ \E s \in Sessions : Invalidate(s)
    \/ \E s \in Sessions : ClearAllWrite(s)
    \/ \E s \in Sessions : ClearAllInvalidate(s)

Spec == Init /\ [][Next]_vars

WipeSpec == WipeInit /\ [][Next]_vars

\* scheduling: every thread that is inside save_entry keeps running; a caller
\* waiting for the lock either gets it or is timed out by FileLock
Fairness ==
    \A s \in Sessions :
        /\ WF_vars(Acquire(s) \/ Timeout(s))
        /\ WF_vars(LoadCheck(s))
        /\ WF_vars(Persist(s) \/ PersistFail(s))
        /\ WF_vars(Invalidate(s))

FairSpec == Spec /\ Fairness

\* ------------------------------------------------------------- claims
\* row i of the file is the entry e (same user, calendar date and journal)
IsRowOf(row, e) ==
    /\ row.username = e.username
    /\ row.date.day = e.date
    /\ row.journal = e.journal

InFile(rows, e) == \E i \in 1..Len(rows) : IsRowOf(rows[i], e)

FileHasKey(rows, e) ==
    \E i \in 1..Len(rows) :
        rows[i].username = e.username /\ rows[i].date.day = e.date

InFrame(frame, e) == \E i \in 1..Len(frame) : frame[i] = e

\* C1: in every reachable state the backing file holds at most one row per
\* (username, calendar date), whatever the interleaving of save_entry,
\* load_data and the wipe by the sessions of the processes.
C1_UniquePerUserAndDate ==
    \A i, j \in 1..Len(file) :
        (i # j /\ file[i].date.day # NaT)
            => ~(file[i].username = file[j].username
                 /\ file[i].date.day = file[j].date.day)

C1_Witness ==
    /\ Len(file) >= 2
    /\ \E s \in Sessions : result[s] = CONFLICT

\* C2: when two save_entry calls for different keys overlapped and both have
\* returned True (no wipe since), the file holds both rows, each exactly once.
C2_ConcurrentAppendsBothStored ==
    \A s, t \in Sessions :
        ( /\ {s, t} \in overlap
          /\ s # t
          /\ saved[s] # NoEntry
          /\ saved[t] # NoEntry
          /\ ~(saved[s].username = saved[t].username
               /\ saved[s].date = saved[t].date) )
        => /\ InFile(file, saved[s])
           /\ InFile(file, saved[t])
           /\ C1_UniquePerUserAndDate

\* C3: a save_entry whose key is in the file when it checks returns False
\* with the duplicate warning and goes on to no write.
C3_ConflictWhenKeyStored ==
    [][\A s \in Sessions :
          (pc[s] = "load" /\ pc'[s] # "load" /\ FileHasKey(file, entry[s]))
          => (pc'[s] = "idle" /\ result'[s] = CONFLICT /\ file' = file)]_vars

\* C4: the frame save_entry checks and extends inside the lock is what the
\* file holds at that moment, never an older memoized frame.
C4_ChecksDurableContent ==
    [][\A s \in Sessions :
          (pc[s] = "load" /\ pc'[s] # "load")
          => /\ LoadData(ProcOf(s)) = ReadStore(file, inferFormat)
             /\ (pc'[s] = "write" => df'[s] = ReadStore(file, inferFormat))]_vars

\* C5: once save_entry returned True for an entry, a load_data call started
\* in any process returns a frame with that entry, until the file is wiped.
C5_LoadsSeeSavedEntry ==
    \A s \in Sessions :
        saved[s] # NoEntry
            => \A p \in Procs : InFrame(LoadData(p), saved[s])

\* C6: at most one session at a time is between the reload and the return
\* of save_entry (the with-block of the lock).
C6_MutualExclusion ==
    \A s, t \in Sessions :
        (s # t) => ~(pc[s] \in InLockPcs /\ pc[t] \in InLockPcs)

C6_Witness ==
    \E s, t \in Sessions :
        s # t /\ pc[s] = "write" /\ pc[t] = "acquire" /\ lock = s

\* C7: the lock is held only by a session that is inside the with-block, so
\* when no save_entry is in progress the lock is free, whichever way the
\* calls ended.
C7_LockReleasedOnExit ==
    /\ \A s \in Sessions : lock = s => pc[s] \in InLockPcs
    /\ (\A s \in Sessions : pc[s] \notin AppendPcs) => lock = Free

C7_Witness ==
    /\ \A s \in Sessions : pc[s] = "idle"
    /\ lock = Free
    /\ \E s, t \in Sessions : result[s] = CONFLICT /\ result[t] = IO_ERROR

\* C8: a save_entry that leaves the wait for the lock without the lock, or
\* the write without having written, returns at once with the error outcome
\* (False and the error message, not the duplicate warning) and the file
\* is as it was.
C8_ErrorOutcome ==
    [][\A s \in Sessions :
          ( \/ (pc[s] = "acquire" /\ pc'[s] \notin {"acquire", "load"})
            \/ (pc[s] = "write" /\ pc'[s] \notin {"write", "clear"}) )
          => /\ pc'[s] = "idle"
             /\ result'[s] = IO_ERROR
             /\ result'[s] # CONFLICT
             /\ file' = file
             /\ lock' # s]_vars

C8_Witness ==
    \E s \in Sessions :
        pc[s] = "idle" /\ result[s] = IO_ERROR /\ Len(file) >= 1

\* C9: every save_entry call returns: a session inside save_entry is
\* eventually back with an outcome, the waiting ones included.
C9_AppendReturns ==
    \A s \in Sessions : (pc[s] \in AppendPcs) ~> (pc[s] = "idle")

C9_Witness ==
    \E s, t \in Sessions :
        /\ s # t
        /\ pc[s] = "idle" /\ result[s] = IO_ERROR
        /\ pc[t] \in InLockPcs

\* C10: no step other than the wipe removes a row from the file or changes
\* its user, calendar date or journal.
C10_EntriesPersist ==
    [][(\A s \in Sessions : ~(pc[s] = "idle" /\ pc'[s] = "wiped"))
          => \A i \in 1..Len(file) :
                \E j \in 1..Len(file') :
                    /\ file'[j].username = file[i].username
                    /\ file'[j].date.day = file[i].date.day
                    /\ file'[j].journal = file[i].journal]_vars


\* ------------------------------------------------- load_data on any file
\* the sequences over S of length at most n
SeqsUpTo(S, n) == UNION {[1..k -> S] : k \in 0..n}

\* the rows a data file can hold (written by the application or not)
MaxRows == 3
DateCells ==
    {[fmt |-> "empty", day |-> NaT]}
    \cup {[fmt |-> f, day |-> d] : f \in {"date", "datetime"}, d \in Dates}
FileRows  == [username : Users, date : DateCells, journal : {1, 2}]
DataFiles == SeqsUpTo(FileRows, MaxRows)

\* one call of load_data() with an empty memo on a file holding rows
CallLoadData(rows) ==
    /\ probe' = [op |-> "load_data", rows |-> rows,
                 frame |-> ReadStore(rows, inferFormat)]
    /\ UNCHANGED <<store, ui>>

\* one call in each behaviour
LoadNext == probe = NoProbe /\ \E rows \in DataFiles : CallLoadData(rows)

LoadSpec == Init /\ [][LoadNext]_vars

\* C11: load_data returns exactly one row per (username, date) key of the
\* parsed file, and for a key that several rows of the file have, that row
\* is the last of them in file order; it returns no other row.
C11_OneRowPerKeyLastWins ==
    probe.op = "load_data" =>
        LET parsed == ToDatetime(probe.rows, inferFormat)
            frame  == probe.frame
            SameKey(a, b) == a.username = b.username /\ a.date = b.date
            LastOf(i) == CHOOSE k \in 1..Len(parsed) :
                            /\ SameKey(parsed[k], parsed[i])
                            /\ \A m \in (k+1)..Len(parsed) :
                                  ~SameKey(parsed[m], parsed[i])
        IN  /\ \A i \in 1..Len(parsed) :
                 /\ Cardinality({j \in 1..Len(frame) :
                                   SameKey(frame[j], parsed[i])}) = 1
                 /\ \E j \in 1..Len(frame) : frame[j] = parsed[LastOf(i)]
            /\ \A j \in 1..Len(frame) :
                 \E i \in 1..Len(parsed) : frame[j] = parsed[i]

C11_Witness ==
    /\ probe.op = "load_data"
    /\ \E i, j \in 1..Len(probe.rows) :
          /\ i < j
          /\ probe.rows[i].username = probe.rows[j].username
          /\ probe.rows[i].date = probe.rows[j].date
          /\ probe.rows[i].date.fmt # "empty"
          /\ probe.rows[i].journal # probe.rows[j].journal
          /\ Len(probe.frame) < Len(probe.rows)


\* ---------------------------------------- load_data on a file of any shape
\* lines 24-27: the nine columns of the store
Columns == {"username", "date", "sleep_hours", "screen_time", "stress_level",
            "mood", "wellness_score", "tip", "journal"}
\* line 47: the columns load_data converts to numbers
NumericColumns == {"sleep_hours", "screen_time", "stress_level",
                   "wellness_score"}

\* A numeric cell of the file is text that is no number, or a number; numbers
\* are counted in halves (v stands for v/2), from -MaxNum/2 to MaxNum/2.
MaxNum == 2
NumCells == {[text |-> TRUE, v |-> 0]} \cup [text : {FALSE}, v : -MaxNum..MaxNum]

\* pd.to_numeric(errors='coerce') followed by fillna(0)
ToNumericFillna(cell) == IF cell.text THEN 0 ELSE cell.v

\* .astype(int) of a float counted in halves: truncation toward zero
AsTypeInt(v) == IF v >= 0 THEN v \div 2 ELSE -((-v) \div 2)

EmptyStore == [raised |-> FALSE, columns |-> Columns, rows |-> <<>>]
KeyError   == [raised |-> TRUE, columns |-> {}, rows |-> <<>>]

\* lines 31-57: load_data on a file that is absent, unreadable, or parsed by
\* read_csv into the columns csv.columns and the rows csv.rows; the fields of
\* a row in columns the file lacks are not read
LoadCsv(csv, infer) ==
    IF csv.kind = "absent" THEN EmptyStore          \* ensure_datafile
    ELSE IF csv.kind = "unreadable" THEN EmptyStore \* except Exception
    ELSE IF ~(NumericColumns \subseteq csv.columns) THEN KeyError
    ELSE LET dated == IF "date" \in csv.columns
                      THEN ToDatetime(csv.rows, infer)
                      ELSE [i \in 1..Len(csv.rows) |->
                              [username |-> "", date |-> NaT, journal |-> 0]]
             frame == [i \in 1..Len(csv.rows) |->
                        [username |-> IF "username" \in csv.columns
                                      THEN csv.rows[i].username ELSE "",
                         date |-> dated[i].date,
                         sleep_hours |->
                             ToNumericFillna(csv.rows[i].sleep_hours),
                         screen_time |->
                             ToNumericFillna(csv.rows[i].screen_time),
                         stress_level |->
                             AsTypeInt(ToNumericFillna(csv.rows[i].stress_level)),
                         wellness_score |->
                             AsTypeInt(ToNumericFillna(csv.rows[i].wellness_score))]]
         IN  [raised  |-> FALSE,
              columns |-> csv.columns \cup {"date", "username"},
              rows    |-> DropDuplicates(frame)]

\* the files load_data is called on: every set of columns (read_csv raises on
\* a file without any) with rows whose
\* numeric cells are all alike, and the full set of columns with every
\* combination of numeric cells
CsvRows ==
    [username : {"alice"}, date : {[fmt |-> "date", day |-> 1]}, journal : {1},
     sleep_hours : NumCells, screen_time : NumCells,
     stress_level : NumCells, wellness_score : NumCells]
UniformRows ==
    {r \in CsvRows : /\ r.screen_time = r.sleep_hours
                     /\ r.stress_level = r.sleep_hours
                     /\ r.wellness_score = r.sleep_hours}
CsvFiles ==
    [kind : {"absent", "unreadable", "parsed"},
     columns : (SUBSET Columns) \ {{}}, rows : SeqsUpTo(UniformRows, 1)]
    \cup [kind : {"parsed"}, columns : {Columns}, rows : SeqsUpTo(CsvRows, 1)]

CallLoadCsv(csv) ==
    /\ probe' = [op |-> "load_csv", csv |-> csv,
                 out |-> LoadCsv(csv, inferFormat)]
    /\ UNCHANGED <<store, ui>>

CsvNext == probe = NoProbe /\ \E csv \in CsvFiles : CallLoadCsv(csv)

CsvSpec == Init /\ [][CsvNext]_vars

\* C12: load_data never raises: on an absent, unreadable or parsed file,
\* whatever columns and numeric cells it has, it returns a store with all
\* nine columns, and an empty one when the file cannot be read.
C12_LoadNeverRaises ==
    probe.op = "load_csv" =>
        /\ ~probe.out.raised
        /\ probe.out.columns = Columns
        /\ probe.csv.kind # "parsed" => probe.out.rows = <<>>

\* C13: in every store load_data returns, sleep_hours is within 0..12,
\* screen_time within 0..24 (both counted in halves), stress_level within
\* 0..10 and wellness_score within 0..100.
C13_NumericFieldsInRange ==
    (probe.op = "load_csv" /\ ~probe.out.raised) =>
        \A i \in 1..Len(probe.out.rows) :
            /\ probe.out.rows[i].sleep_hours \in 0..24
            /\ probe.out.rows[i].screen_time \in 0..48
            /\ probe.out.rows[i].stress_level \in 0..10
            /\ probe.out.rows[i].wellness_score \in 0..100


\* C14: every row of the data file has its date written as a calendar date
\* (YYYY-MM-DD, without a time), the appended row and the rows rewritten
\* from the loaded frame alike, and load_data parses it back to that date.
C14_DatesWrittenAsCalendarDates ==
    \A i \in 1..Len(file) :
        /\ file[i].date.fmt = "date"
        /\ ToDatetime(file, inferFormat)[i].date = file[i].date.day


\* ------------------------------------------------ compute_wellness_score
SCORE_MIN == 0
SCORE_MAX == 100

\* the check-in form: sleep and screen time in steps of 0.5, counted in
\* halves, and the stress slider
SleepHalves  == 24
ScreenHalves == 48
StressMax    == 10

\* np.clip(x, lo, hi) of a scalar
Clip(x, lo, hi) == IF x < lo THEN lo ELSE IF x > hi THEN hi ELSE x

\* The three partial scores, counted in sixths of a point so that every
\* value is an integer: sleep and screen are counted in halves, and
\* (screen - 3) * (30 / 9) is 10 * (halves - 6) sixths.
SleepScore(sleep) == Clip(15 * sleep, 0, 6 * 40)

\* the stress term growing with stress
StressScoreInverted(stress) == Clip(18 * stress, 0, 6 * 30)

StressScore(stress) == Clip(18 * (10 - stress), 0, 6 * 30)

ScreenScore(screen) ==
    IF screen <= 6 THEN 6 * 30
    ELSE LET rest == 6 * 30 - 10 * (screen - 6)
         IN  IF rest > 0 THEN rest ELSE 0

\* line 94: int(np.clip(sum, SCORE_MIN, SCORE_MAX)), in points
compute_wellness_score(sleep, screen, stress) ==
    Clip(SleepScore(sleep) + StressScore(stress) + ScreenScore(screen),
         6 * SCORE_MIN, 6 * SCORE_MAX) \div 6

CallComputeWellnessScore(sleep, screen, stress) ==
    /\ probe' = [op |-> "compute_wellness_score", sleep |-> sleep,
                 screen |-> screen, stress |-> stress,
                 score |-> compute_wellness_score(sleep, screen, stress)]
    /\ UNCHANGED <<store, ui>>

ScoreNext ==
    /\ probe = NoProbe
    /\ \E sleep \in 0..SleepHalves, screen \in 0..ScreenHalves,
       stress \in 0..StressMax :
        CallComputeWellnessScore(sleep, screen, stress)

ScoreSpec == Init /\ [][ScoreNext]_vars

\* C16: for sleep in [0,12] and screen in [0,24] in steps of 0.5 and an
\* integer stress in [0,10], compute_wellness_score returns an integer in
\* [0,100]; (8, 3, 0) gives 100, (0, 24, 10) gives 0 and (0, 0, 10) gives 30.
C16_ScoreInRange ==
    probe.op = "compute_wellness_score" =>
        /\ probe.score \in 0..100
        /\ (probe.sleep = 16 /\ probe.screen = 6 /\ probe.stress = 0)
               => probe.score = 100
        /\ (probe.sleep = 0 /\ probe.screen = 48 /\ probe.stress = 10)
               => probe.score = 0
        /\ (probe.sleep = 0 /\ probe.screen = 0 /\ probe.stress = 10)
               => probe.score = 30

C16_Witness ==
    /\ probe.op = "compute_wellness_score"
    /\ probe.sleep = 16 /\ probe.screen = 6 /\ probe.stress = 0
    /\ probe.score = 100


\* ---------------------------------- get_last_n_days and the leaderboard
\* datetime.now().date(), as a day number; the dates stored around it: the
\* ends of the 7-day window, the day before it, and tomorrow (the login
\* page's date_input accepts any date)
Today == 8
QueryDays == {Today - 7, Today - 6, Today - 1, Today, Today + 1}
QueryScores == {0, 100}
QueryRows == [username : Users, date : QueryDays, wellness_score : QueryScores]

\* the frames load_data can return: one row per (username, date)
MaxQueryRows == 3
QueryFrames ==
    {f \in SeqsUpTo(QueryRows, MaxQueryRows) :
        \A i, j \in 1..Len(f) :
            (f[i].username = f[j].username /\ f[i].date = f[j].date) => i = j}

\* the rows of frame at the indices in idx, in every order
Arrangements(frame, idx) ==
    {[k \in 1..Cardinality(idx) |-> frame[p[k]]] :
        p \in {q \in [1..Cardinality(idx) -> idx] :
                 \A a, b \in 1..Cardinality(idx) : q[a] = q[b] => a = b}}

\* df.tail(n)
TailN(seq, n) ==
    IF Len(seq) <= n THEN seq ELSE SubSeq(seq, Len(seq) - n + 1, Len(seq))

\* lines 118-124: the values get_last_n_days(df, n, username) can return;
\* sort_values is not stable, so rows of one date come in any order
get_last_n_days(frame, n, username) ==
    LET df_user == IF username # "" 
                   THEN {i \in 1..Len(frame) : frame[i].username = username}
                   ELSE 1..Len(frame)
        start   == Today - (n - 1)
        recent  == {i \in df_user : frame[i].date >= start}
        sorted  == {a \in Arrangements(frame, recent) :
                      \A x, y \in 1..Len(a) : x < y => a[x].date <= a[y].date}
    IN  {TailN(a, n) : a \in sorted}

CallGetLastNDays(frame, n, username) ==
    \E out \in get_last_n_days(frame, n, username) :
        /\ probe' = [op |-> "get_last_n_days", frame |-> frame, n |-> n,
                     username |-> username, out |-> out]
        /\ UNCHANGED <<store, ui>>

\* C17: get_last_n_days returns only rows of the frame dated within
\* [today - (n-1), today], only rows of the given user when one is given,
\* in ascending order of date, and at most n of them.
C17_LastNDaysWindow ==
    probe.op = "get_last_n_days" =>
        /\ Len(probe.out) <= probe.n
        /\ \A k \in 1..Len(probe.out) :
              /\ \E i \in 1..Len(probe.frame) : probe.frame[i] = probe.out[k]
              /\ probe.out[k].date >= Today - (probe.n - 1)
              /\ probe.out[k].date <= Today
              /\ probe.username # "" => probe.out[k].username = probe.username
        /\ \A x, y \in 1..Len(probe.out) :
              x < y => probe.out[x].date <= probe.out[y].date


\* lines 269-274: the rows the leaderboard of a type is computed from
InWindow(d, type) ==
    IF type = "Daily" THEN d = Today
    ELSE d >= Today - 6 /\ d <= Today

RECURSIVE SumScores(_, _)
SumScores(frame, idx) ==
    IF idx = {} THEN 0
    ELSE LET i == CHOOSE k \in idx : TRUE
         IN  frame[i].wellness_score + SumScores(frame, idx \ {i})

\* groupby("username")["wellness_score"].mean(): a mean is kept as the
\* total and the count of the scores
GroupByMean(frame, type) ==
    LET rowsOf(u) == {i \in 1..Len(frame) :
                        frame[i].username = u /\ InWindow(frame[i].date, type)}
    IN  {[username |-> u, total |-> SumScores(frame, rowsOf(u)),
          count |-> Cardinality(rowsOf(u))] :
            u \in {v \in Users : rowsOf(v) # {}}}

\* sorting by ascending mean
RankedBeforeAscending(a, b) == a.total * b.count <= b.total * a.count

\* line 279: sort_values("wellness_score", ascending=False): the mean of a
\* is at least the mean of b
RankedBefore(a, b) == a.total * b.count >= b.total * a.count

\* lines 269-280: the tables the leaderboard can show; users of one mean
\* come in any order
Leaderboard(frame, type) ==
    LET df_score == GroupByMean(frame, type)
        k        == Cardinality(df_score)
        orders   == {q \in [1..k -> df_score] :
                       /\ \A a, b \in 1..k : q[a] = q[b] => a = b
                       /\ \A a, b \in 1..k : a < b => RankedBefore(q[a], q[b])}
    IN  {[i \in 1..k |-> [username |-> q[i].username, total |-> q[i].total,
                          count |-> q[i].count, Rank |-> i]] : q \in orders}

CallLeaderboard(frame, type) ==
    \E out \in Leaderboard(frame, type) :
        /\ probe' = [op |-> "leaderboard", frame |-> frame, type |-> type,
                     out |-> out]
        /\ UNCHANGED <<store, ui>>

LastNNext ==
    /\ probe = NoProbe
    /\ \E frame \in QueryFrames, n \in {1, 7}, username \in Users \cup {""} :
          CallGetLastNDays(frame, n, username)

LastNSpec == Init /\ [][LastNNext]_vars

BoardNext ==
    /\ probe = NoProbe
    /\ \E frame \in QueryFrames, type \in {"Daily", "Weekly"} :
          CallLeaderboard(frame, type)

BoardSpec == Init /\ [][BoardNext]_vars

\* the rows of the probed frame that user u has in the probed window
C18_WindowRows(u) ==
    {i \in 1..Len(probe.frame) :
        /\ probe.frame[i].username = u
        /\ IF probe.type = "Daily" THEN probe.frame[i].date = Today
           ELSE probe.frame[i].date \in (Today - 6)..Today}

\* C18: the leaderboard of a window (Daily: today, Weekly: the 7 days ending
\* today) lists each username with an entry in the window exactly once and
\* no other, with the mean of that user's wellness_score over the window, in
\* non-increasing order of mean, with ranks 1..k in that order.
C18_LeaderboardRanked ==
    probe.op = "leaderboard" =>
        LET out == probe.out
        IN  /\ \A u \in Users :
                 Cardinality({k \in 1..Len(out) : out[k].username = u})
                     = IF C18_WindowRows(u) # {} THEN 1 ELSE 0
            /\ \A k \in 1..Len(out) :
                 /\ out[k].username \in Users
                 /\ out[k].count = Cardinality(C18_WindowRows(out[k].username))
                 /\ out[k].total
                        = SumScores(probe.frame, C18_WindowRows(out[k].username))
                 /\ out[k].Rank = k
            /\ \A x, y \in 1..Len(out) :
                 x < y => out[x].total * out[y].count
                              >= out[y].total * out[x].count

C18_Witness ==
    /\ probe.op = "leaderboard"
    /\ probe.type = "Weekly"
    /\ Len(probe.out) = 2
    /\ probe.out[1].count = 1 /\ probe.out[1].total = 100
    /\ probe.out[2].count = 2 /\ probe.out[2].total = 100
    /\ probe.out[2].Rank = 2


\* a row of the given key
HasKey(rows, username, day) ==
    \E i \in 1..Len(rows) : rows[i].username = username /\ rows[i].date = day

\* C19: when a wipe completes, no entry that was in the file when the wipe
\* began (and was not submitted anew since) is in the file or in what
\* load_data returns in any process, whatever appends run concurrently.
C19_ClearAllRemovesEntries ==
    [][\A s \in Sessions :
          (pc[s] = "wiped" /\ pc'[s] = "idle") =>
              \A i \in 1..Len(wipe.rows[s]) :
                  LET old == wipe.rows[s][i]
                  IN  /\ \A k \in 1..Len(file') :
                            ~(file'[k].username = old.username
                              /\ file'[k].date.day = old.date.day)
                      /\ \A p \in Procs :
                            ~HasKey(LoadData(p)', old.username, old.date.day)]_vars


\* ------------------------------------------- one session at the pages
\* The text typed into "Your Name": a name without surrounding whitespace,
\* possibly empty, between lead and trail blanks.
MaxSpaces == 1
TextInputs == [lead : 0..MaxSpaces, core : Users \cup {""}, trail : 0..MaxSpaces]

\* line 148: `if username:` is true of every non-empty string
Truthy(text) == text.core # "" \/ text.lead + text.trail > 0

\* line 150: username.strip()
Strip(text) == text.core

\* the session modelled and its server process
UiSession == 1
UiProc == ProcOf(UiSession)

\* the sidebar's pages that show data or the delete button
Pages == {"Today's Check-in", "Weekly Overview", "Leaderboard",
          "View Past Entries", "Clear All Past Entries"}

\* load_data() with memo m of the process and the file holding rows
LoadFrom(m, rows) ==
    IF m # NoMemo THEN m[2] ELSE ReadStore(rows, inferFormat)

\* lines 176-190: already_done, from the session's flags and the loaded data
AlreadyDone(username, date_input, flags, data) ==
    \/ <<username, date_input>> \in flags
    \/ \E i \in 1..Len(data) :
          data[i].username = username /\ data[i].date = date_input

\* lines 157-190: a run of the dashboard script on a page: data = load_data()
\* and, on the check-in page, whether the form is withheld
Rendered(u, page, data) ==
    [u EXCEPT !.dashboard_page = page,
              !.already_done =
                  page = "Today's Check-in"
                  /\ AlreadyDone(u.username, u.date_input, u.flags, data)]

\* lines 143-155 and the rerun: Continue on the login page
Login(text, d) ==
    /\ ~ui.logged_in
    /\ IF Truthy(text)
       THEN LET data == LoadFrom(memo[UiProc], file)
                u == [logged_in |-> TRUE, username |-> Strip(text),
                      date_input |-> d, dashboard_page |-> "Today's Check-in",
                      flags |-> {}, already_done |-> FALSE]
            IN  /\ ui' = Rendered(u, "Today's Check-in", data)
                /\ memo' = [memo EXCEPT ![UiProc] = <<"hit", data>>]
                /\ fileExists' = TRUE
       ELSE UNCHANGED <<ui, memo, fileExists>>
    /\ UNCHANGED <<file, lock, inferFormat, pc, entry, df, result, saved,
                   overlap, wipe, probe>>

\* lines 164-171 and the rerun: a page is chosen in the sidebar
Navigate(option) ==
    /\ ui.logged_in
    /\ LET data == LoadFrom(memo[UiProc], file)
       IN  /\ ui' = Rendered(ui, option, data)
           /\ memo' = [memo EXCEPT ![UiProc] = <<"hit", data>>]
    /\ fileExists' = TRUE
    /\ UNCHANGED <<file, lock, inferFormat, pc, entry, df, result, saved,
                   overlap, wipe, probe>>

\* lines 191-218: the form is shown and submitted; save_entry runs alone, so
\* the lock is free; written says whether to_csv succeeds
Submit(written) ==
    /\ ui.logged_in
    /\ ui.dashboard_page = "Today's Check-in"
    /\ ~ui.already_done
    /\ lock = Free
    /\ LET e    == [username |-> ui.username, date |-> ui.date_input,
                    journal |-> UiProc]
           df0  == LoadFrom(memo[UiProc], file)
           rows == Concat(df0, e)
           data == ReadStore(rows, inferFormat)
           key  == <<ui.username, ui.date_input>>
       IN  IF ~Exists(df0, e) /\ written
           THEN /\ file' = rows
                /\ memo' = [memo EXCEPT ![UiProc] = <<"hit", data>>]
                /\ ui' = Rendered([ui EXCEPT !.flags = @ \cup {key}],
                                  "Today's Check-in", data)
           ELSE /\ memo' = [memo EXCEPT ![UiProc] = <<"hit", df0>>]
                /\ UNCHANGED <<file, ui>>
    /\ fileExists' = TRUE
    /\ UNCHANGED <<lock, inferFormat, pc, entry, df, result, saved,
                   overlap, wipe, probe>>

\* lines 311-323: Delete All Data on its page, then st.stop()
ClearAll ==
    /\ ui.logged_in
    /\ ui.dashboard_page = "Clear All Past Entries"
    /\ file' = <<>>
    /\ fileExists' = TRUE
    /\ memo' = [memo EXCEPT ![UiProc] = NoMemo]
    /\ UNCHANGED <<ui, lock, inferFormat, pc, entry, df, result, saved,
                   overlap, wipe, probe>>

\* lines 325-328: Switch Account deletes every key of the session state and
\* the rerun shows the login page
SwitchAccount ==
    /\ ui.logged_in
    /\ ui' = NoUi
    /\ UNCHANGED <<store, probe>>

UiNext ==
    \/ \E text \in TextInputs, d \in Dates : Login(text, d)
    \/ \E option \in Pages : Navigate(option)
    \/ \E written \in BOOLEAN : Submit(written)
    \/ ClearAll
    \/ SwitchAccount

UiSpec == Init /\ [][UiNext]_vars

\* C15: no entry stored through the login page and the check-in form has the
\* empty string as its username.
C15_UsernameNonEmpty ==
    \A i \in 1..Len(file) : file[i].username # ""

\* C20: whenever the check-in page of a logged-in session is shown, the
\* form is withheld exactly when the data file holds an entry for the
\* session's (username, date_input), after any sequence of submission,
\* Delete All Data, navigation and switching of account.
C20_AlreadyDoneAgreesWithStore ==
    (/\ ui.logged_in
     /\ ui.dashboard_page = "Today's Check-in"
     /\ ui.username # "")
        => (ui.already_done <=>
               \E i \in 1..Len(file) :
                  /\ file[i].username = ui.username
                  /\ file[i].date.day = ui.date_input)

====
